---- MODULE Spec2Model ----
(***************************************************************************)
(* Model of packages/fuels-accounts/src/account.rs: the Account trait's    *)
(* fee reconciliation (adjust_for_fee) and the three workflows transfer,   *)
(* force_transfer_to_contract and withdraw_to_base_layer.                  *)
(*                                                                         *)
(* One invocation is one run of the state machine: Start draws the         *)
(* operation and its arguments, every later action is one awaited call of  *)
(* the workflow body, in source order.  The provider (node), the fee       *)
(* estimator and the helpers of accounts_utils are collaborators; their    *)
(* outcomes are drawn nondeterministically or computed as section 4 of the *)
(* specification describes them.                                           *)
(***************************************************************************)
EXTENDS Integers, Sequences, FiniteSets, TLC

VARIABLES
    provider,   \* TRUE iff the account has a bound provider (try_provider is Ok)
    signer,     \* TRUE iff the account overrides add_witnesses (a signing account)
    pool,       \* the resources the node holds for the account, in query order
    spent,      \* ids of the resources a committed transaction has spent
    est,        \* the fee estimator: fee = est.base + est.perInput * #inputs
    pc,         \* position of the invocation in its body
    op,         \* the operation invoked
    asset,      \* asset_id argument
    amount,     \* amount / balance argument
    inputs,     \* the local `inputs` vector before the builder is prepared
    tb,         \* the transaction builder: inputs, outputs, signers
    usedBase,   \* used_base_amount handed to adjust_for_fee
    appended,   \* the inputs adjust_for_fee appended to the builder
    tbBefore,   \* the builder as it was when adjust_for_fee was entered
    adjusted,   \* outcome of adjust_for_fee: "none", "Ok" or the error
    status,     \* the node's answer to the submitted transaction
    result,     \* what the invocation returned: "none", "Ok", an error, "panic"
    nonce,      \* the nonce returned by withdraw_to_base_layer ("none": none)
    trace,      \* the workflow states passed, in order
    calls,      \* the collaborator calls issued, in order
    missing,    \* missing_base_amount, held by adjust_for_fee across its awaits
    rival       \* a second, concurrent invocation on the same account

vars == <<provider, signer, pool, spent, est, pc, op, asset, amount, inputs, tb,
          usedBase, appended, tbBefore, adjusted, status, result, nonce,
          trace, calls, missing, rival>>

\* ---------------------------------------------------------------- bounds
MaxPool == 2        \* resources the node holds for the account
MaxCoin == 2        \* largest amount of one resource
MaxAmount == 3      \* largest amount / balance / used_base_amount argument
MaxFeeBase == 2     \* largest size-independent part of the estimated fee
MaxFeePerInput == 1 \* largest fee increase per input of the draft

\* ---------------------------------------------------------------- values
BASE_ASSET_ID == "base"
Assets == {BASE_ASSET_ID, "other"}
Self == "self"
Recipient == "to"

CoinKinds == [asset : Assets, amount : 1..MaxCoin]
Pools == UNION {[1..n -> CoinKinds] : n \in 0..MaxPool}
Estimators == [base : 0..MaxFeeBase, perInput : 0..MaxFeePerInput]

RECURSIVE SumAmounts(_)
SumAmounts(s) == IF s = <<>> THEN 0 ELSE Head(s).amount + SumAmounts(Tail(s))

\* ---------------------------------------------------------------- inputs / outputs
InputContract == [kind |-> "contract", id |-> 0, asset |-> "none", amount |-> 0]
InputResource(i, a, n) == [kind |-> "resource", id |-> i, asset |-> a, amount |-> n]

OutputCoin(to, n, a) == [kind |-> "coin", to |-> to, asset |-> a, amount |-> n, idx |-> 0]
OutputChange(to, n, a) == [kind |-> "change", to |-> to, asset |-> a, amount |-> n, idx |-> 0]
OutputContract(i) == [kind |-> "contract", to |-> "none", asset |-> "none", amount |-> 0, idx |-> i]
OutputMessage(to, n) == [kind |-> "message", to |-> to, asset |-> BASE_ASSET_ID, amount |-> n, idx |-> 0]

EmptyBuilder == [inputs |-> <<>>, outputs |-> <<>>, signers |-> {}]

ScriptResult == [kind |-> "script_result", nonce |-> "none"]
MessageOut(n) == [kind |-> "message_out", nonce |-> n]
Nonces == {"n1", "n2"}
ReceiptLists == {<<ScriptResult>>} \cup {<<MessageOut(n), ScriptResult>> : n \in Nonces}

\* ---------------------------------------------------------------- resource selection
\* Provider::get_spendable_resources: greedy first-fit over the unspent
\* resources of the asset, in the node's order, until the sum reaches `need`.
RECURSIVE Greedy(_, _, _, _, _)
Greedy(p, sp, i, a, need) ==
    IF need <= 0 \/ i > Len(p) THEN <<>>
    ELSE IF p[i].asset = a /\ i \notin sp
         THEN <<InputResource(i, a, p[i].amount)>> \o Greedy(p, sp, i + 1, a, need - p[i].amount)
         ELSE Greedy(p, sp, i + 1, a, need)

ProviderGetSpendableResources(p, sp, a, n) ==
    LET r == Greedy(p, sp, 1, a, n)
    IN  IF SumAmounts(r) >= n THEN [err |-> "none", res |-> r]
        ELSE [err |-> "InsufficientFunds", res |-> <<>>]

TryProvider_Unchecked(hasProvider) == "Ok"

\* ViewOnlyAccount::try_provider, as the `?` at its call sites sees it.
TryProvider(hasProvider) == IF hasProvider THEN "Ok" ELSE "NoProvider"

GetSpendableResources_DefaultAsset(hasProvider, p, sp, a, n) ==
    IF TryProvider(hasProvider) # "Ok"
    THEN [err |-> "NoProvider", res |-> <<>>, queried |-> FALSE]
    ELSE LET r == ProviderGetSpendableResources(p, sp, BASE_ASSET_ID, n)
         IN  [err |-> r.err, res |-> r.res, queried |-> TRUE]

\* ViewOnlyAccount::get_spendable_resources: the filter carries the address,
\* the asset and the amount and nothing else (no exclusion set);
\* try_provider()? comes before the query.
GetSpendableResources(hasProvider, p, sp, a, n) ==
    IF TryProvider(hasProvider) # "Ok"
    THEN [err |-> "NoProvider", res |-> <<>>, queried |-> FALSE]
    ELSE LET r == ProviderGetSpendableResources(p, sp, a, n)
         IN  [err |-> r.err, res |-> r.res, queried |-> TRUE]

\* Account::get_asset_inputs_for_amount: amount 0 gives no input and no query.
GetAssetInputsForAmount(hasProvider, p, sp, a, n) ==
    IF n = 0 THEN [err |-> "none", res |-> <<>>, queried |-> FALSE]
    ELSE GetSpendableResources(hasProvider, p, sp, a, n)

GetAssetOutputsForAmount_NoChange(to, a, n) == <<OutputCoin(to, n, a)>>

\* Account::get_asset_outputs_for_amount
GetAssetOutputsForAmount(to, a, n) ==
    <<OutputCoin(to, n, a), OutputChange(Self, 0, a)>>

\* ---------------------------------------------------------------- fee reconciliation helpers
\* The estimator collaborator on a draft.
EstimateFee(e, b) == e.base + e.perInput * Len(b.inputs)

\* accounts_utils::calculate_missing_base_amount, from the required fee.
CalculateMissingBaseAmount(fee, used) == IF fee > used THEN fee - used ELSE 0

HasChange(b, owner, a) ==
    \E i \in DOMAIN b.outputs :
        /\ b.outputs[i].kind = "change"
        /\ b.outputs[i].to = owner
        /\ b.outputs[i].asset = a

\* accounts_utils::adjust_inputs_outputs: the new inputs go after the existing
\* ones; a base-asset change output for the owner is added unless present.
AdjustInputsOutputs(b, new, owner) ==
    [b EXCEPT !.inputs = b.inputs \o new,
              !.outputs = IF HasChange(b, owner, BASE_ASSET_ID) THEN b.outputs
                          ELSE Append(b.outputs, OutputChange(owner, 0, BASE_ASSET_ID))]

\* extract_message_nonce: the nonce of the first message-out receipt, if any.
ExtractMessageNonce(rs) ==
    LET hits == {i \in DOMAIN rs : rs[i].kind = "message_out"}
    IN  IF hits = {} THEN "none"
        ELSE rs[CHOOSE i \in hits : \A j \in hits : i <= j].nonce

\* ---------------------------------------------------------------- workflows
Workflows == {"transfer", "force_transfer_to_contract", "withdraw_to_base_layer"}

\* used_base_amount as each workflow computes it for adjust_for_fee.
UsedBaseAmount(o, a, n) ==
    IF o = "transfer" THEN (IF a = BASE_ASSET_ID THEN n ELSE 0)
    ELSE n

\* ScriptTransactionBuilder::prepare_transfer and prepare_contract_transfer:
\* the draft holds the inputs and outputs it is given.
PrepareTransfer(ins, outs) == [inputs |-> ins, outputs |-> outs, signers |-> {}]

\* The owner of an input: the resources the account selects are its own
\* (the filter's `from` is self.address()).
OwnerOf(x) == IF x.kind = "resource" THEN Self ELSE "none"

\* ScriptTransactionBuilder::prepare_message_to_output: the draft carries the
\* inputs it is given and the message to the other layer and, as every draft
\* the assembler makes, one change output for the asset its inputs spend.
\* The account's address is not among the arguments: the change owner is the
\* owner the inputs carry, and a draft without inputs has no change output.
PrepareMessageToOutput(to, n, ins) ==
    [inputs  |-> ins,
     outputs |-> <<OutputMessage(to, n)>>
                 \o (IF ins = <<>> THEN <<>>
                     ELSE <<OutputChange(OwnerOf(ins[1]), 0, BASE_ASSET_ID)>>),
     signers |-> {}]

\* The builder each workflow prepares from its inputs.
PrepareBuilder(o, ins, a, n) ==
    CASE o = "transfer" ->
            PrepareTransfer(ins, GetAssetOutputsForAmount(Recipient, a, n))
      [] o = "force_transfer_to_contract" ->
            PrepareTransfer(ins, <<OutputContract(0), OutputChange(Self, 0, a)>>)
      [] OTHER -> PrepareMessageToOutput(Recipient, n, ins)

WorkflowInputs_ContractLast(o, res) ==
    IF o = "force_transfer_to_contract" THEN res \o <<InputContract>> ELSE res

\* The `inputs` vector of a workflow: force_transfer_to_contract puts the
\* placeholder contract input first and extends it with the selected inputs.
WorkflowInputs(o, res) ==
    IF o = "force_transfer_to_contract" THEN <<InputContract>> \o res ELSE res

StepAfter_FeeBeforeSign(step) ==
    CASE step = "select"   -> "assemble"
      [] step = "assemble" -> "fee"
      [] step = "fee"      -> "sign"
      [] step = "sign"     -> "build"
      [] step = "build"    -> "submit"
      [] step = "submit"   -> "receipts"
      [] OTHER             -> "done"

\* The order of the awaited steps in the three workflow bodies.
StepAfter(step) ==
    CASE step = "select"   -> "assemble"
      [] step = "assemble" -> "sign"
      [] step = "sign"     -> "fee"
      [] step = "fee"      -> "build"
      [] step = "build"    -> "submit"
      [] step = "submit"   -> "receipts"
      [] OTHER             -> "done"

ExpectNonce_OrDefault(n) ==
    IF n = "none" THEN [result |-> "Ok", nonce |-> "zero"]
    ELSE [result |-> "Ok", nonce |-> n]

\* `extract_message_nonce(&receipts).expect(..)` and the Ok(..) that follows.
ExpectNonce(n) ==
    IF n = "none" THEN [result |-> "panic", nonce |-> "none"]
    ELSE [result |-> "Ok", nonce |-> n]

RivalIdle ==
    [pc |-> "idle", asset |-> BASE_ASSET_ID, amount |-> 0, tb |-> EmptyBuilder,
     missing |-> 0, sent |-> FALSE, committed |-> FALSE, result |-> "none"]

Init ==
    /\ provider \in BOOLEAN
    /\ signer \in BOOLEAN
    /\ pool \in Pools
    /\ spent = {}
    /\ est \in Estimators
    /\ pc = "idle"
    /\ op = "none"
    /\ asset = BASE_ASSET_ID
    /\ amount = 0
    /\ inputs = <<>>
    /\ tb = EmptyBuilder
    /\ usedBase = 0
    /\ appended = <<>>
    /\ tbBefore = EmptyBuilder
    /\ adjusted = "none"
    /\ status = [committed |-> FALSE, success |-> FALSE, receipts |-> <<>>]
    /\ result = "none"
    /\ nonce = "none"
    /\ trace = <<>>
    /\ calls = <<>>
    /\ missing = 0
    /\ rival = RivalIdle

Fail(e) == /\ result' = e
           /\ pc' = "done"

\* A workflow is invoked: `let provider = self.try_provider()?;`
Start ==
    /\ pc = "idle"
    /\ \E o \in Workflows, a \in Assets, n \in 0..MaxAmount :
        /\ o = "withdraw_to_base_layer" => a = BASE_ASSET_ID
        /\ op' = o
        /\ asset' = a
        /\ amount' = n
    /\ IF TryProvider(provider) = "Ok" THEN pc' = "select" /\ result' = result
       ELSE Fail("NoProvider")
    /\ UNCHANGED <<missing, rival, provider, signer, pool, spent, est, inputs, tb, usedBase,
                   appended, tbBefore, adjusted, status, nonce, trace, calls>>

\* adjust_for_fee is called directly on a caller's builder: contract inputs
\* lead, resource inputs follow, a base change output may be there already.
StartAdjust ==
    /\ pc = "idle"
    /\ \E c \in BOOLEAN, r \in BOOLEAN, ch \in BOOLEAN, u \in 0..MaxAmount :
        LET sel == ProviderGetSpendableResources(pool, spent, BASE_ASSET_ID, 1)
        IN  /\ r => sel.err = "none"
            /\ tb' = [inputs  |-> (IF c THEN <<InputContract>> ELSE <<>>)
                                  \o (IF r THEN sel.res ELSE <<>>),
                      outputs |-> (IF c THEN <<OutputContract(0)>> ELSE <<>>)
                                  \o (IF ch \/ r
                                      THEN <<OutputChange(Self, 0, BASE_ASSET_ID)>>
                                      ELSE <<>>),
                      signers |-> {}]
            /\ usedBase' = u
    /\ op' = "adjust_for_fee"
    /\ pc' = "fee"
    /\ UNCHANGED <<missing, rival, provider, signer, pool, spent, est, asset, amount, inputs, appended,
                   tbBefore, adjusted, status, result, nonce, trace, calls>>

\* ViewOnlyAccount::get_spendable_resources(asset_id, amount) is called
\* directly: the whole method, from try_provider()? to the provider's answer.
QuerySpendable ==
    /\ pc = "idle"
    /\ \E a \in Assets, n \in 0..MaxAmount :
        LET sel == GetSpendableResources(provider, pool, spent, a, n)
        IN  /\ asset' = a
            /\ amount' = n
            /\ calls' = IF sel.queried THEN Append(calls, "get_spendable_resources")
                        ELSE calls
            /\ inputs' = sel.res
            /\ result' = IF sel.err = "none" THEN "Ok" ELSE sel.err
    /\ op' = "get_spendable_resources"
    /\ pc' = "done"
    /\ UNCHANGED <<missing, rival, provider, signer, pool, spent, est, tb, usedBase, appended,
                   tbBefore, adjusted, status, nonce, trace>>

SelectInputs_Reserving ==
    /\ pc = "select"
    /\ LET sel == GetAssetInputsForAmount(provider, pool, spent, asset, amount)
       IN  /\ calls' = calls \o <<"get_asset_inputs_for_amount">>
                          \o (IF sel.queried THEN <<"get_spendable_resources">> ELSE <<>>)
           /\ spent' = spent \cup {sel.res[i].id : i \in DOMAIN sel.res}
           /\ IF sel.err = "none"
              THEN /\ inputs' = WorkflowInputs(op, sel.res)
                   /\ pc' = StepAfter("select")
                   /\ result' = result
              ELSE /\ Fail(sel.err)
                   /\ inputs' = inputs
    /\ trace' = Append(trace, "SelectingInputs")
    /\ UNCHANGED <<missing, rival, provider, signer, pool, est, op, asset, amount, tb,
                   usedBase, appended, tbBefore, adjusted, status, nonce>>

\* `self.get_asset_inputs_for_amount(asset_id, amount).await?`; in
\* force_transfer_to_contract the placeholder contract input comes first.
SelectInputs ==
    /\ pc = "select"
    /\ LET sel == GetAssetInputsForAmount(provider, pool, spent, asset, amount)
       IN  /\ calls' = calls \o <<"get_asset_inputs_for_amount">>
                          \o (IF sel.queried THEN <<"get_spendable_resources">> ELSE <<>>)
           /\ IF sel.err = "none"
              THEN /\ inputs' = WorkflowInputs(op, sel.res)
                   /\ pc' = StepAfter("select")
                   /\ result' = result
              ELSE /\ Fail(sel.err)
                   /\ inputs' = inputs
    /\ trace' = Append(trace, "SelectingInputs")
    /\ UNCHANGED <<missing, rival, provider, signer, pool, spent, est, op, asset, amount, tb,
                   usedBase, appended, tbBefore, adjusted, status, nonce>>

\* The outputs are made and the builder is prepared.
Assemble ==
    /\ pc = "assemble"
    /\ tb' = PrepareBuilder(op, inputs, asset, amount)
    /\ trace' = Append(trace, "Assembling")
    /\ pc' = StepAfter("assemble")
    /\ UNCHANGED <<missing, rival, provider, signer, pool, spent, est, op, asset, amount, inputs,
                   usedBase, appended, tbBefore, adjusted, status, result, nonce, calls>>

AddSigner_Dropped(b, who) == b

\* TransactionBuilder::add_signer: the signer is registered on the builder;
\* its signature is resolved when the transaction is built.
AddSigner(b, who) == [b EXCEPT !.signers = b.signers \cup {who}]

\* add_witnesses is called directly on a caller's builder.
StartAddWitnesses ==
    /\ pc = "idle"
    /\ \E c \in BOOLEAN, r \in BOOLEAN :
        LET sel == ProviderGetSpendableResources(pool, spent, BASE_ASSET_ID, 1)
        IN  /\ r => sel.err = "none"
            /\ tb' = [inputs  |-> (IF c THEN <<InputContract>> ELSE <<>>)
                                  \o (IF r THEN sel.res ELSE <<>>),
                      outputs |-> IF c THEN <<OutputContract(0)>> ELSE <<>>,
                      signers |-> {}]
    /\ op' = "add_witnesses"
    /\ pc' = "sign"
    /\ UNCHANGED <<missing, rival, provider, signer, pool, spent, est, asset, amount, inputs,
                   usedBase, appended, tbBefore, adjusted, status, result, nonce, trace,
                   calls>>

AfterSign == IF op = "add_witnesses" THEN "done" ELSE StepAfter("sign")

\* Account::add_witnesses returns Result<()>: Ok(()) and nothing else by
\* default; a signing account registers itself as a signer of the builder,
\* or fails, and the workflows pass the error on with `?`.
AddWitnesses ==
    /\ pc = "sign"
    /\ trace' = Append(trace, "Signing")
    /\ \/ /\ tb' = IF signer THEN AddSigner(tb, Self) ELSE tb
          /\ pc' = AfterSign
          /\ result' = IF op = "add_witnesses" THEN "Ok" ELSE result
       \/ /\ signer
          /\ tb' = tb
          /\ Fail("SignerFailure")
    /\ UNCHANGED <<missing, rival, provider, signer, pool, spent, est, op, asset, amount, inputs,
                   usedBase, appended, tbBefore, adjusted, status, nonce, calls>>

AfterAdjust == IF op = "adjust_for_fee" THEN "done" ELSE StepAfter("fee")

\* `calculate_missing_base_amount(tb, used_base_amount, self.try_provider()?)
\* .await?` on builder b: what it returns, the missing amount and the calls.
AdjustEstimateResult(b, used, estOk) ==
    IF TryProvider(provider) # "Ok"
    THEN [res |-> "NoProvider", missing |-> 0, calls |-> <<>>]
    ELSE IF ~estOk
    THEN [res |-> "EstimationFailure", missing |-> 0, calls |-> <<"estimate_fee">>]
    ELSE [res |-> "Ok",
          missing |-> CalculateMissingBaseAmount(EstimateFee(est, b), used),
          calls |-> <<"estimate_fee">>]

NeedsTopUp_Always(m) == TRUE

\* `if missing_base_amount > 0`
NeedsTopUp(m) == m > 0

AdjustTopUpResult_ChangeFirst(b, m) ==
    LET sel == GetAssetInputsForAmount(provider, pool, spent, BASE_ASSET_ID, m)
        asked == <<"get_asset_inputs_for_amount">>
                 \o (IF sel.queried THEN <<"get_spendable_resources">> ELSE <<>>)
    IN  IF sel.err = "none"
        THEN [res |-> "Ok", tb |-> AdjustInputsOutputs(b, sel.res, Self),
              appended |-> sel.res, calls |-> asked]
        ELSE [res |-> sel.err, tb |-> AdjustInputsOutputs(b, <<>>, Self),
              appended |-> <<>>, calls |-> asked]

AdjustTopUpResult_Retry(b, m) ==
    LET sel == GetAssetInputsForAmount(provider, pool, spent, BASE_ASSET_ID, m)
        asked == <<"get_asset_inputs_for_amount">>
                 \o (IF sel.queried THEN <<"get_spendable_resources">> ELSE <<>>)
    IN  IF sel.err = "none"
        THEN [res |-> "Ok", tb |-> AdjustInputsOutputs(b, sel.res, Self),
              appended |-> sel.res, calls |-> asked]
        ELSE [res |-> sel.err, tb |-> b, appended |-> <<>>,
              calls |-> asked \o <<"estimate_fee">> \o asked]

\* The body of `if missing_base_amount > 0 { .. }` on builder b: the
\* selection of the missing base amount, awaited, and adjust_inputs_outputs.
AdjustTopUpResult(b, m) ==
    LET sel == GetAssetInputsForAmount(provider, pool, spent, BASE_ASSET_ID, m)
        asked == <<"get_asset_inputs_for_amount">>
                 \o (IF sel.queried THEN <<"get_spendable_resources">> ELSE <<>>)
    IN  IF sel.err = "none"
        THEN [res |-> "Ok", tb |-> AdjustInputsOutputs(b, sel.res, Self),
              appended |-> sel.res, calls |-> asked]
        ELSE [res |-> sel.err, tb |-> b, appended |-> <<>>, calls |-> asked]

\* Account::adjust_for_fee up to its first await, with the used_base_amount
\* the caller passes: the fee is estimated and the missing amount computed;
\* with nothing missing the function returns Ok.
AdjustForFee ==
    /\ pc = "fee"
    /\ tbBefore' = tb
    /\ usedBase' = IF op \in Workflows THEN UsedBaseAmount(op, asset, amount) ELSE usedBase
    /\ trace' = Append(trace, "ReconcilingFee")
    /\ \E estOk \in BOOLEAN :
          LET r == AdjustEstimateResult(tb, usedBase', estOk)
          IN  /\ calls' = calls \o r.calls
              /\ missing' = r.missing
              /\ IF r.res # "Ok"
                 THEN adjusted' = r.res /\ Fail(r.res)
                 ELSE IF NeedsTopUp(r.missing)
                 THEN adjusted' = adjusted /\ pc' = "topup" /\ result' = result
                 ELSE /\ adjusted' = "Ok"
                      /\ pc' = AfterAdjust
                      /\ result' = IF op = "adjust_for_fee" THEN "Ok" ELSE result
    /\ UNCHANGED <<rival, provider, signer, pool, spent, est, op, asset, amount, inputs,
                   tb, appended, status, nonce>>

\* Account::adjust_for_fee from its second await on: the selection answers,
\* the new inputs are adjusted into the builder, Ok(()).
AdjustTopUp ==
    /\ pc = "topup"
    /\ LET r == AdjustTopUpResult(tb, missing)
       IN  /\ adjusted' = r.res
           /\ tb' = r.tb
           /\ appended' = r.appended
           /\ calls' = calls \o r.calls
           /\ IF r.res = "Ok"
              THEN /\ pc' = AfterAdjust
                   /\ result' = IF op = "adjust_for_fee" THEN "Ok" ELSE result
              ELSE Fail(r.res)
    /\ UNCHANGED <<missing, rival, provider, signer, pool, spent, est, op, asset, amount,
                   inputs, usedBase, tbBefore, status, nonce, trace>>

Build_Unchecked ==
    /\ pc = "build"
    /\ calls' = Append(calls, "build")
    /\ trace' = Append(trace, "Building")
    /\ pc' = StepAfter("build")
    /\ \/ result' = "BuildFailure"
       \/ result' = result
    /\ UNCHANGED <<missing, rival, provider, signer, pool, spent, est, op, asset, amount,
                   inputs, tb, usedBase, appended, tbBefore, adjusted, status, nonce>>

\* The witnesses of the transaction built from b: build resolves one
\* signature per registered signer, whatever the number of its inputs.
Witnesses(b) == b.signers

\* `tb.build(provider).await?`
Build ==
    /\ pc = "build"
    /\ calls' = Append(calls, "build")
    /\ trace' = Append(trace, "Building")
    /\ \/ Fail("BuildFailure")
       \/ pc' = StepAfter("build") /\ result' = result
    /\ UNCHANGED <<missing, rival, provider, signer, pool, spent, est, op, asset, amount, inputs, tb,
                   usedBase, appended, tbBefore, adjusted, status, nonce>>

SpentBy(b) == {b.inputs[i].id : i \in {j \in DOMAIN b.inputs : b.inputs[j].kind = "resource"}}

NodeAccepts_Always(ids, sp) == TRUE

\* The node's validation of a submitted transaction: none of its inputs is
\* already spent.
NodeAccepts(ids, sp) == ids \cap sp = {}

\* `provider.send_transaction_and_await_commit(tx).await?`: the node rejects
\* the transaction, or commits it and reports the execution.
Submit ==
    /\ pc = "submit"
    /\ calls' = Append(calls, "send_transaction_and_await_commit")
    /\ \/ /\ Fail("SubmissionRejected")
          /\ trace' = Append(trace, "Submitting")
          /\ UNCHANGED <<status, spent>>
       \/ /\ NodeAccepts(SpentBy(tb), spent)
          /\ \E ok \in BOOLEAN, rs \in ReceiptLists :
                status' = [committed |-> TRUE, success |-> ok, receipts |-> rs]
          /\ spent' = spent \cup SpentBy(tb)
          /\ trace' = trace \o <<"Submitting", "AwaitingCommit">>
          /\ pc' = StepAfter("submit")
          /\ result' = result
    /\ UNCHANGED <<missing, rival, provider, signer, pool, est, op, asset, amount, inputs, tb,
                   usedBase, appended, tbBefore, adjusted, nonce>>

\* `tx_status.take_receipts_checked(None)?` and, in withdraw_to_base_layer,
\* `extract_message_nonce(&receipts).expect(..)`; then the Ok(..) return.
ExtractResult ==
    /\ pc = "receipts"
    /\ trace' = Append(trace, "ExtractingResult")
    /\ pc' = "done"
    /\ IF ~status.success
       THEN result' = "CheckedExecutionFailure" /\ nonce' = nonce
       ELSE IF op = "withdraw_to_base_layer"
            THEN LET r == ExpectNonce(ExtractMessageNonce(status.receipts))
                 IN  result' = r.result /\ nonce' = r.nonce
            ELSE result' = "Ok" /\ nonce' = nonce
    /\ UNCHANGED <<missing, rival, provider, signer, pool, spent, est, op, asset, amount, inputs, tb,
                   usedBase, appended, tbBefore, adjusted, status, calls>>

Next ==
    \/ Start
    \/ StartAdjust
    \/ QuerySpendable
    \/ SelectInputs
    \/ Assemble
    \/ StartAddWitnesses
    \/ AddWitnesses
    \/ AdjustForFee
    \/ AdjustTopUp
    \/ Build
    \/ Submit
    \/ ExtractResult

Spec == Init /\ [][Next]_vars

\* A second invocation on the same account, a transfer, running while the
\* first one does and followed through each of its awaits. Its input
\* selection and the draft made from it ...
RivalSelect ==
    /\ rival.pc = "idle"
    /\ \E a \in Assets, n \in 1..MaxAmount :
        LET sel == GetAssetInputsForAmount(provider, pool, spent, a, n)
        IN  rival' = IF sel.err = "none"
                     THEN [rival EXCEPT !.pc = "fee", !.asset = a, !.amount = n,
                                        !.tb = PrepareBuilder("transfer", sel.res, a, n)]
                     ELSE [rival EXCEPT !.pc = "done", !.asset = a, !.amount = n,
                                        !.result = sel.err]
    /\ UNCHANGED <<missing, provider, signer, pool, spent, est, pc, op, asset, amount,
                   inputs, tb, usedBase, appended, tbBefore, adjusted, status, result,
                   nonce, trace, calls>>

\* ... its adjust_for_fee up to the first await ...
RivalEstimate ==
    /\ rival.pc = "fee"
    /\ \E estOk \in BOOLEAN :
        LET r == AdjustEstimateResult(rival.tb,
                    UsedBaseAmount("transfer", rival.asset, rival.amount), estOk)
        IN  rival' = IF r.res # "Ok"
                     THEN [rival EXCEPT !.pc = "done", !.result = r.res]
                     ELSE IF NeedsTopUp(r.missing)
                     THEN [rival EXCEPT !.pc = "topup", !.missing = r.missing]
                     ELSE [rival EXCEPT !.pc = "build"]
    /\ UNCHANGED <<missing, provider, signer, pool, spent, est, pc, op, asset, amount,
                   inputs, tb, usedBase, appended, tbBefore, adjusted, status, result,
                   nonce, trace, calls>>

\* ... its adjust_for_fee from the second await on ...
RivalTopUp ==
    /\ rival.pc = "topup"
    /\ LET r == AdjustTopUpResult(rival.tb, rival.missing)
       IN  rival' = IF r.res = "Ok"
                    THEN [rival EXCEPT !.pc = "build", !.tb = r.tb]
                    ELSE [rival EXCEPT !.pc = "done", !.result = r.res]
    /\ UNCHANGED <<missing, provider, signer, pool, spent, est, pc, op, asset, amount,
                   inputs, tb, usedBase, appended, tbBefore, adjusted, status, result,
                   nonce, trace, calls>>

\* ... its `tb.build(provider).await?` ...
RivalBuild ==
    /\ rival.pc = "build"
    /\ \/ rival' = [rival EXCEPT !.pc = "done", !.result = "BuildFailure"]
       \/ rival' = [rival EXCEPT !.pc = "submit"]
    /\ UNCHANGED <<missing, provider, signer, pool, spent, est, pc, op, asset, amount,
                   inputs, tb, usedBase, appended, tbBefore, adjusted, status, result,
                   nonce, trace, calls>>

\* ... and its `send_transaction_and_await_commit(tx).await?`, which the
\* node rejects or commits, with `take_receipts_checked(None)?` on the
\* status it reports.
RivalSubmit ==
    /\ rival.pc = "submit"
    /\ \/ /\ rival' = [rival EXCEPT !.pc = "done", !.sent = TRUE,
                                     !.result = "SubmissionRejected"]
          /\ spent' = spent
       \/ /\ NodeAccepts(SpentBy(rival.tb), spent)
          /\ \E ok \in BOOLEAN :
                rival' = [rival EXCEPT !.pc = "done", !.sent = TRUE, !.committed = TRUE,
                            !.result = IF ok THEN "Ok" ELSE "CheckedExecutionFailure"]
          /\ spent' = spent \cup SpentBy(rival.tb)
    /\ UNCHANGED <<missing, provider, signer, pool, est, pc, op, asset, amount, inputs, tb,
                   usedBase, appended, tbBefore, adjusted, status, result, nonce, trace,
                   calls>>

\* The account has a provider (both invocations reach the node); whether it
\* signs and how the fee grows with the draft do not bear on the contention:
\* the fee is flat, nothing or one unit.
InitConc == Init /\ provider /\ ~signer /\ est.perInput = 0 /\ est.base <= 1

NextConc ==
    \/ Start
    \/ SelectInputs
    \/ Assemble
    \/ AddWitnesses
    \/ AdjustForFee
    \/ AdjustTopUp
    \/ Build
    \/ Submit
    \/ ExtractResult
    \/ RivalSelect
    \/ RivalEstimate
    \/ RivalTopUp
    \/ RivalBuild
    \/ RivalSubmit

\* Two invocations on one account, interleaved step by step: nothing in
\* the account serialises them.
SpecConc == InitConc /\ [][NextConc]_vars

\* ================================================================ properties
Resources(ins) == SelectSeq(ins, LAMBDA x : x.kind = "resource")

\* What the account holds of an asset and no committed transaction has spent.
Available(a) ==
    LET ids == {i \in DOMAIN pool : pool[i].asset = a /\ i \notin spent}
        RECURSIVE Total(_)
        Total(S) == IF S = {} THEN 0
                    ELSE LET i == CHOOSE x \in S : TRUE
                         IN  pool[i].amount + Total(S \ {i})
    IN  Total(ids)

\* The value of the distinct resources of an asset among a builder's inputs.
InputValue(b, a) ==
    LET ids == {b.inputs[i].id : i \in {j \in DOMAIN b.inputs :
                    b.inputs[j].kind = "resource" /\ b.inputs[j].asset = a}}
        RECURSIVE Total(_)
        Total(S) == IF S = {} THEN 0
                    ELSE LET i == CHOOSE x \in S : TRUE
                         IN  pool[i].amount + Total(S \ {i})
    IN  Total(ids)

Built == /\ op \in Workflows
         /\ \E i \in DOMAIN calls : calls[i] = "build"
         /\ result # "BuildFailure"

\* Every base-asset resource of the account is worth more than one more input
\* costs: each additional input strictly reduces the shortfall.
EachInputReducesShortfall ==
    \A i \in DOMAIN pool : pool[i].asset = BASE_ASSET_ID => pool[i].amount > est.perInput

\* C1: when adjust_for_fee returns Ok under an estimator in which each
\* additional input strictly reduces the shortfall, the fee required for the
\* final draft is at most used_base_amount plus the value of the appended
\* base-asset inputs.
C1_FeeConvergence ==
    (adjusted = "Ok" /\ EachInputReducesShortfall)
        => EstimateFee(est, tb) <= usedBase + SumAmounts(appended)

\* C2: a successful base-asset transfer of A with balance >= A + fee builds a
\* transaction whose base-asset input value is >= A + fee, with one coin output
\* of A to the recipient and a base change output to the sender.
C2_SelfFundingTransfer ==
    (/\ Built
     /\ op = "transfer"
     /\ asset = BASE_ASSET_ID
     /\ spent = {}
     /\ Available(BASE_ASSET_ID) >= amount + EstimateFee(est, tb))
        => /\ InputValue(tb, BASE_ASSET_ID) >= amount + EstimateFee(est, tb)
           /\ Cardinality({i \in DOMAIN tb.outputs :
                  tb.outputs[i] = OutputCoin(Recipient, amount, BASE_ASSET_ID)}) = 1
           /\ HasChange(tb, Self, BASE_ASSET_ID)

\* A state in which adjust_for_fee returned Ok after appending an input to a
\* draft that already had inputs, under a shortfall-reducing estimator.
C1_Witness ==
    /\ adjusted = "Ok"
    /\ EachInputReducesShortfall
    /\ appended # <<>>
    /\ tbBefore.inputs # <<>>

C2_Witness ==
    /\ Built
    /\ op = "transfer"
    /\ asset = BASE_ASSET_ID
    /\ amount > 0
    /\ Available(BASE_ASSET_ID) >= amount + EstimateFee(est, tb)

SelectionFailed == pc = "done" /\ trace = <<"SelectingInputs">>

\* C3: input selection returns resources of the asset summing to >= amount
\* when the account holds that much, and otherwise fails with
\* InsufficientFunds leaving every builder without a new input; in the
\* workflows' first selection and in the selection inside adjust_for_fee.
C3_Sufficiency ==
    /\ (op \in Workflows /\ trace # <<>> /\ spent = {}) =>
          IF Available(asset) >= amount
          THEN /\ ~SelectionFailed
               /\ \A i \in DOMAIN Resources(inputs) : Resources(inputs)[i].asset = asset
               /\ SumAmounts(Resources(inputs)) >= amount
          ELSE /\ SelectionFailed
               /\ result = "InsufficientFunds"
               /\ inputs = <<>>
               /\ tb = EmptyBuilder
    /\ (adjusted \in {"Ok", "InsufficientFunds"} /\ spent = {}) =>
          LET need == CalculateMissingBaseAmount(EstimateFee(est, tbBefore), usedBase)
          IN  IF Available(BASE_ASSET_ID) >= need
              THEN /\ adjusted = "Ok"
                   /\ \A i \in DOMAIN appended : appended[i].asset = BASE_ASSET_ID
                   /\ SumAmounts(appended) >= need
                   /\ tb.inputs = tbBefore.inputs \o appended
              ELSE /\ adjusted = "InsufficientFunds"
                   /\ result = "InsufficientFunds"
                   /\ appended = <<>>
                   /\ tb = tbBefore

C3_Witness ==
    /\ op \in Workflows
    /\ asset # BASE_ASSET_ID
    /\ pc = "assemble"
    /\ Len(Resources(inputs)) = 2
    /\ amount > 1

NContracts(b) == Cardinality({i \in DOMAIN b.inputs : b.inputs[i].kind = "contract"})

IndexStable(b) ==
    /\ \A i \in 1..NContracts(b) : b.inputs[i].kind = "contract"
    /\ \A j \in DOMAIN b.outputs :
          b.outputs[j].kind = "contract" =>
             /\ b.outputs[j].idx < NContracts(b)
             /\ b.inputs[b.outputs[j].idx + 1].kind = "contract"

\* C4: in every builder state the N contract inputs are the first N inputs
\* and every contract output's index points at one of them, also after
\* adjust_for_fee appended inputs; in force_transfer_to_contract the one
\* placeholder contract input is input 0 and Output::contract(0, ..) names it.
C4_IndexStability ==
    /\ IndexStable(tb)
    /\ (op = "force_transfer_to_contract" /\ tb # EmptyBuilder) =>
          /\ NContracts(tb) = 1
          /\ tb.inputs[1] = InputContract
          /\ tb.outputs[1] = OutputContract(0)
    /\ (op = "force_transfer_to_contract" /\ inputs # <<>>) => inputs[1] = InputContract

C4_Witness ==
    /\ op = "force_transfer_to_contract"
    /\ adjusted = "Ok"
    /\ appended # <<>>
    /\ Len(tbBefore.inputs) > 1
    /\ status.committed

\* The assets a draft touches: those of its resource inputs and of its coin
\* and change outputs (a message output names no asset id).
Touched(b) ==
    {b.inputs[i].asset : i \in {j \in DOMAIN b.inputs : b.inputs[j].kind = "resource"}}
    \cup {b.outputs[i].asset :
            i \in {j \in DOMAIN b.outputs : b.outputs[j].kind \in {"coin", "change"}}}

ChangeCount(b, a) ==
    Cardinality({j \in DOMAIN b.outputs :
                    b.outputs[j].kind = "change" /\ b.outputs[j].asset = a})

IsPrefix(s, t) == Len(s) <= Len(t) /\ \A i \in DOMAIN s : s[i] = t[i]

ClaimedOrder ==
    <<"SelectingInputs", "Assembling", "ReconcilingFee", "Signing", "Building",
      "Submitting", "AwaitingCommit", "ExtractingResult">>

CodeOrder ==
    <<"SelectingInputs", "Assembling", "Signing", "ReconcilingFee", "Building",
      "Submitting", "AwaitingCommit", "ExtractingResult">>

\* C6 as claimed: the workflow states occur in the order SelectingInputs,
\* Assembling, ReconcilingFee, Signing, Building, Submitting, AwaitingCommit,
\* ExtractingResult (fee reconciliation before witness attachment).
C6_StepOrderClaimed == op \in Workflows => IsPrefix(trace, ClaimedOrder)

\* C6 amended: the workflow states occur in the order SelectingInputs,
\* Assembling, Signing, ReconcilingFee, Building, Submitting, AwaitingCommit,
\* ExtractingResult: add_witnesses has returned when adjust_for_fee starts.
C6_StepOrder ==
    op \in Workflows =>
        /\ IsPrefix(trace, CodeOrder)
        /\ adjusted # "none" => (Len(trace) >= 4 /\ trace[3] = "Signing")

C6_Witness == op \in Workflows /\ trace = CodeOrder /\ result = "Ok"

ErrorKinds ==
    {"NoProvider", "InsufficientFunds", "SignerFailure", "EstimationFailure",
     "BuildFailure", "SubmissionRejected", "CheckedExecutionFailure"}

\* C7: every invocation ends by returning Ok or a typed error to its caller,
\* whatever step failed, a missing message receipt included.
C7_ErrorPropagation == pc = "done" => result \in {"Ok"} \cup ErrorKinds

HasMessageOut(rs) == \E i \in DOMAIN rs : rs[i].kind = "message_out"

\* C8: withdraw_to_base_layer returns Ok only with the nonce of a message-out
\* receipt of the committed transaction; with no such receipt it ends in a
\* failure and hands out no nonce.
C8_NonceFromReceipt ==
    op = "withdraw_to_base_layer" =>
        /\ result = "Ok" =>
              \E i \in DOMAIN status.receipts :
                  /\ status.receipts[i].kind = "message_out"
                  /\ status.receipts[i].nonce = nonce
        /\ (pc = "done" /\ status.committed /\ ~HasMessageOut(status.receipts)) =>
              /\ result \in {"panic", "CheckedExecutionFailure"}
              /\ nonce = "none"

C8_Witness ==
    /\ op = "withdraw_to_base_layer"
    /\ pc = "done"
    /\ status.committed
    /\ status.success
    /\ ~HasMessageOut(status.receipts)

\* C9: without a provider every operation fails with NoProvider at once: a
\* workflow is done as soon as it is invoked, adjust_for_fee on its first step,
\* with no collaborator call issued and no builder touched.
C9_NoProvider ==
    ~provider =>
        /\ calls = <<>>
        /\ spent = {}
        /\ ~status.committed
        /\ (pc = "done" /\ op # "add_witnesses") => result = "NoProvider"
        /\ op \in Workflows => (pc = "done" /\ trace = <<>> /\ tb = EmptyBuilder)
        /\ (op = "adjust_for_fee" /\ pc = "done") =>
              (adjusted = "NoProvider" /\ tb = tbBefore /\ appended = <<>>)

C9_Witness == ~provider /\ op = "adjust_for_fee" /\ pc = "done" /\ tb # EmptyBuilder

\* C10: force_transfer_to_contract hands adjust_for_fee `balance` as
\* used_base_amount exactly when asset_id is the base asset and 0 otherwise,
\* so that for another asset the base-asset inputs of the built transaction
\* cover the estimated fee.
C10_CreditOnlyBase ==
    (op = "force_transfer_to_contract" /\ adjusted = "Ok") =>
        /\ usedBase = (IF asset = BASE_ASSET_ID THEN amount ELSE 0)
        /\ asset # BASE_ASSET_ID =>
              InputValue(tb, BASE_ASSET_ID) >= EstimateFee(est, tbBefore)

\* The ids of the resources among the inputs of b, one per occurrence.
ResourceIds(b) == [i \in 1..Len(Resources(b.inputs)) |-> Resources(b.inputs)[i].id]

NoResourceTwice(b) ==
    \A i, j \in DOMAIN ResourceIds(b) :
        ResourceIds(b)[i] = ResourceIds(b)[j] => i = j

\* C11: transfer credits `amount` as used_base_amount exactly when the asset
\* is the base asset and 0 otherwise, withdraw_to_base_layer always credits
\* `amount`, and so no base-asset resource is selected twice, once for the
\* transfer and once for the fee, in a transaction these workflows reconcile.
C11_CreditNoDoubleSelection ==
    /\ (op = "transfer" /\ adjusted # "none")
          => usedBase = IF asset = BASE_ASSET_ID THEN amount ELSE 0
    /\ (op = "withdraw_to_base_layer" /\ adjusted # "none") => usedBase = amount
    /\ (op \in {"transfer", "withdraw_to_base_layer"} /\ adjusted = "Ok")
          => NoResourceTwice(tb)

\* A base-asset transfer whose fee top-up appended inputs.
C11_Witness ==
    /\ op = "transfer" /\ asset = BASE_ASSET_ID /\ adjusted = "Ok"
    /\ usedBase = amount /\ amount > 0
    /\ appended # <<>>

Range(q) == {q[i] : i \in DOMAIN q}

\* C12: a selection with target amount 0 returns the empty sequence and
\* issues no spendable-resources query to the provider, whether the selection
\* is called directly or reached through transfer, force_transfer_to_contract
\* or withdraw_to_base_layer with amount 0.
C12_ZeroAmountSelection ==
    /\ (op = "get_spendable_resources" /\ pc = "done" /\ amount = 0 /\ provider)
          => /\ inputs = <<>>
             /\ calls = <<>>
    /\ (op \in Workflows /\ amount = 0 /\ "SelectingInputs" \in Range(trace)
          /\ adjusted = "none")
          => /\ Resources(inputs) = <<>>
             /\ "get_spendable_resources" \notin Range(calls)

\* A selection with target amount 0 has answered on an account with resources.
C12_Witness ==
    /\ op = "get_spendable_resources" /\ pc = "done" /\ amount = 0
    /\ provider /\ pool # <<>>

Overlap == SpentBy(tb) \cap SpentBy(rival.tb)

BothSubmitted ==
    /\ "send_transaction_and_await_commit" \in Range(calls)
    /\ rival.sent

\* C13: two invocations on the same account, not serialised, may hold the
\* same unspent resource; whenever both submit transactions sharing a
\* resource, the node rejects at least one of them at submission, and no
\* resource is spent by two committed transactions.
C13_NoDoubleSpend ==
    /\ (BothSubmitted /\ Overlap # {})
          => \/ result = "SubmissionRejected"
             \/ rival.result = "SubmissionRejected"
    /\ (status.committed /\ rival.committed) => Overlap = {}

\* Both invocations selected the same resource while it was unspent, both
\* submitted, and one of the two transactions was committed.
C13_Witness ==
    /\ Overlap # {}
    /\ BothSubmitted
    /\ status.committed \/ rival.committed
    /\ result = "SubmissionRejected" \/ rival.result = "SubmissionRejected"

\* The calls adjust_for_fee issued, in order: what follows its first fee
\* estimation, the later build and submission left out.
AdjustCalls ==
    LET firstEst == {i \in DOMAIN calls : calls[i] = "estimate_fee"}
    IN  IF firstEst = {} THEN <<>>
        ELSE LET k == CHOOSE i \in firstEst : \A j \in firstEst : i <= j
             IN  SelectSeq(SubSeq(calls, k, Len(calls)),
                           LAMBDA c : c \notin {"build", "send_transaction_and_await_commit"})

\* Its calls to the node: the fee estimations and the resource queries.
FeeCalls ==
    SelectSeq(AdjustCalls, LAMBDA c : c \in {"estimate_fee", "get_spendable_resources"})

\* C14: every pass of adjust_for_fee that appends inputs is followed by
\* another fee estimation on the enlarged draft; on a successful return the
\* last call adjust_for_fee made is a fee estimation, and the fee of the
\* draft it returns is covered.
C14_ReEstimateAfterTopUp ==
    adjusted = "Ok"
        => /\ FeeCalls # <<>>
           /\ FeeCalls[Len(FeeCalls)] = "estimate_fee"
           /\ \A i \in DOMAIN FeeCalls :
                 FeeCalls[i] = "get_spendable_resources"
                     => i < Len(FeeCalls) /\ FeeCalls[i + 1] = "estimate_fee"
           /\ CalculateMissingBaseAmount(EstimateFee(est, tb),
                                         usedBase + SumAmounts(appended)) = 0

\* adjust_for_fee returned Ok after one estimation and one top-up.
C14_Witness ==
    /\ op = "adjust_for_fee" /\ adjusted = "Ok"
    /\ appended # <<>>
    /\ FeeCalls = <<"estimate_fee", "get_spendable_resources">>

\* The estimate/top-up passes adjust_for_fee made: each begins with one fee
\* estimation.
Passes == Cardinality({i \in DOMAIN FeeCalls : FeeCalls[i] = "estimate_fee"})

\* The distinct resources the node holds unspent for the account.
DistinctResources == Cardinality({i \in DOMAIN pool : i \notin spent})

Returned == adjusted # "none"

\* C15 as claimed: on an account with a provider adjust_for_fee always
\* returns, with Ok, InsufficientFunds or the estimation error, after a
\* number of estimate/top-up passes that is at most the number of distinct
\* resources available to the account.
C15_TerminationClaimed ==
    provider
        => /\ pc = "fee" => ENABLED AdjustForFee
           /\ pc = "topup" => ENABLED AdjustTopUp
           /\ Returned
                 => /\ adjusted \in {"Ok", "InsufficientFunds", "EstimationFailure"}
                    /\ adjusted # "EstimationFailure"
                         => Passes <= DistinctResources

\* C15, amended: as above, after a number of passes that is at most one
\* more than the number of distinct resources available (the pass that finds
\* nothing to add, or nothing to select, is a pass too).
C15_Termination ==
    provider
        => /\ pc = "fee" => ENABLED AdjustForFee
           /\ pc = "topup" => ENABLED AdjustTopUp
           /\ Returned
                 => /\ adjusted \in {"Ok", "InsufficientFunds", "EstimationFailure"}
                    /\ adjusted # "EstimationFailure"
                         => Passes <= DistinctResources + 1

\* adjust_for_fee made its pass on an account without resources and
\* returned InsufficientFunds.
C15_Witness ==
    /\ provider /\ pool = <<>>
    /\ adjusted = "InsufficientFunds"
    /\ Passes = 1

Sends == Cardinality({i \in DOMAIN calls : calls[i] = "send_transaction_and_await_commit"})

LastStep == IF trace = <<>> THEN "none" ELSE trace[Len(trace)]

\* The workflow state in which each failure arises.
FailedIn(e) ==
    CASE e = "NoProvider"              -> {"none"}
      [] e = "InsufficientFunds"       -> {"SelectingInputs", "ReconcilingFee"}
      [] e = "SignerFailure"           -> {"Signing"}
      [] e = "EstimationFailure"       -> {"ReconcilingFee"}
      [] e = "BuildFailure"            -> {"Building"}
      [] e = "SubmissionRejected"      -> {"Submitting"}
      [] OTHER                         -> {"ExtractingResult"}

\* C16: in one workflow invocation the transaction is submitted at most
\* once, and only after input selection, witness attachment, fee
\* reconciliation and build have all succeeded; once a step has failed the
\* invocation is over, and no later step, no submission in particular, is
\* performed.
C16_FailuresTerminal ==
    op \in Workflows
        => /\ Sends <= 1
           /\ Sends = 1
                 => /\ IsPrefix(SubSeq(CodeOrder, 1, 6), trace)
                    /\ adjusted = "Ok"
                    /\ "build" \in Range(calls)
                    /\ result \notin {"NoProvider", "InsufficientFunds", "SignerFailure",
                                      "EstimationFailure", "BuildFailure"}
           /\ result \notin {"none", "Ok"}
                 => /\ pc = "done"
                    /\ ~ENABLED Next
                    /\ LastStep \in FailedIn(result)
                    /\ result # "SubmissionRejected" /\ LastStep # "ExtractingResult"
                          => Sends = 0
                    /\ result = "SubmissionRejected" => ~status.committed

\* A workflow whose build failed after a successful fee reconciliation.
C16_Witness ==
    /\ op \in Workflows /\ pc = "done"
    /\ result = "BuildFailure" /\ adjusted = "Ok"
    /\ Sends = 0

\* C17: before the submission a workflow changes nothing but its own
\* transaction builder (and its own local values): every step taken from a
\* state other than the submission leaves the node's unspent-resource pool
\* and the account unchanged, so a workflow that fails or is abandoned
\* before Submitting leaves them as they were.
C17_NoMutationBeforeSubmit ==
    [][pc # "submit" => UNCHANGED <<pool, spent, provider, signer, est>>]_vars

\* A workflow that failed in fee reconciliation, after its builder was
\* filled, with every resource of the account still unspent.
C17_Witness ==
    /\ op \in Workflows /\ pc = "done"
    /\ result = "EstimationFailure"
    /\ Resources(tb.inputs) # <<>>
    /\ spent = {}

\* Every signer-backed input of b is covered by a witness of its owner.
Covered(b) ==
    \A i \in DOMAIN b.inputs :
        b.inputs[i].kind = "resource" => OwnerOf(b.inputs[i]) \in Witnesses(b)

\* C18: in a workflow run by a signing account every signer-backed input of
\* the transaction that is built and submitted, the inputs adjust_for_fee
\* appended after add_witnesses included, is covered by a witness of the
\* signer, and further inputs of the signer add no further witness.
C18_WitnessCompleteness ==
    (signer /\ Built)
        => /\ Covered(tb)
           /\ \A i \in DOMAIN appended : OwnerOf(appended[i]) \in Witnesses(tb)
           /\ Witnesses(tb) = {Self}

\* A signing account's transaction was committed with inputs appended by
\* adjust_for_fee after add_witnesses.
C18_Witness ==
    /\ signer /\ Built /\ status.committed
    /\ appended # <<>>
    /\ Len(Resources(tb.inputs)) >= 2

AdjustErrors == {"NoProvider", "EstimationFailure", "InsufficientFunds"}

\* C19: when adjust_for_fee fails, for want of a provider, on the fee
\* estimation or on the selection of the missing base amount, it returns
\* that error and the builder's inputs and outputs are as they were before
\* the call.
C19_AtomicOnError ==
    adjusted \in AdjustErrors
        => /\ result = adjusted
           /\ tb.inputs = tbBefore.inputs
           /\ tb.outputs = tbBefore.outputs
           /\ appended = <<>>

\* adjust_for_fee failed with InsufficientFunds on a draft that has inputs
\* and no base change output yet.
C19_Witness ==
    /\ adjusted = "InsufficientFunds"
    /\ tbBefore.inputs # <<>>
    /\ ~HasChange(tbBefore, Self, BASE_ASSET_ID)

\* What adjust_for_fee found missing on the draft it was given.
MissingBefore == CalculateMissingBaseAmount(EstimateFee(est, tbBefore), usedBase)

\* C20: when the estimated fee is already covered (missing base amount 0)
\* adjust_for_fee returns Ok, makes no call to the input selection and
\* leaves the builder's inputs and outputs unchanged.
C20_CoveredFeeNoChange ==
    (adjusted \notin {"none", "NoProvider", "EstimationFailure"} /\ MissingBefore = 0)
        => /\ adjusted = "Ok"
           /\ tb.inputs = tbBefore.inputs
           /\ tb.outputs = tbBefore.outputs
           /\ AdjustCalls = <<"estimate_fee">>

\* adjust_for_fee returned Ok on a draft whose positive fee was covered by
\* the amount already committed, with no base change output in the draft.
C20_Witness ==
    /\ adjusted = "Ok" /\ MissingBefore = 0
    /\ EstimateFee(est, tbBefore) > 0
    /\ ~HasChange(tbBefore, Self, BASE_ASSET_ID)

====
